---- MODULE Spec2Model ----
(***************************************************************************)
(* A model of intervals.py: the class `interval` (a list of (start, end)   *)
(* tuples, `subintervals`) and the classifier _get_before_inside_after.    *)
(*                                                                         *)
(* A Python tuple (start, end) is the TLA+ tuple <<start, end>>; the empty *)
(* tuple () is <<>>, and a tuple is truthy iff it is not <<>>.  A Python   *)
(* list is a sequence.  List objects have identity: `lists` is the store   *)
(* of list objects, and an interval instance holds a reference (an index   *)
(* of `lists`) in its field `subintervals`.                                *)
(***************************************************************************)
EXTENDS Integers, Sequences, FiniteSets

\* Endpoints and items are the integers 0..MaxVal.
MaxVal == 4
\* Number of interval instances a run of Spec creates.
MaxObjs == 4
\* Number of ranges in an operand SpecCalls starts from.
MaxRanges == 2

\* Python's None, as an argument of __init__ (no endpoint is negative).
None == -1

Vals == 0 .. MaxVal

VARIABLES
    lists,  \* the list objects: lists[ref] is the content of list object ref
    objs,   \* the interval instances, in creation order
    call,   \* SpecCalls: the last call made, [op, start, end]
    ret     \* SpecCalls: what the last call returned or raised, [kind, val]

vars == <<lists, objs, call, ret>>

Min(a, b) == IF a <= b THEN a ELSE b
Max(a, b) == IF a >= b THEN a ELSE b

\* list.index(x): the first position holding x (0 when absent).
IndexOf(s, x) ==
    IF \E k \in DOMAIN s : s[k] = x
    THEN CHOOSE k \in DOMAIN s : s[k] = x /\ \A m \in 1 .. (k - 1) : s[m] # x
    ELSE 0

\* list.remove(x): the list without its first occurrence of x.  Every pair the
\* code removes was read from the same list, so x is never absent.
ListRemove(s, x) ==
    LET k == IndexOf(s, x)
    IN  IF k = 0 THEN s
        ELSE [m \in 1 .. (Len(s) - 1) |-> IF m < k THEN s[m] ELSE s[m + 1]]

(***************************************************************************)
(* _get_before_inside_after(start, end, intervals): one pass over          *)
(* `intervals` from position k, first matching branch wins, `absorbed`     *)
(* breaks out of the loop.                                                 *)
(***************************************************************************)
RECURSIVE ClassifyFrom(_, _, _, _, _)
ClassifyFrom(start, end, intervals, k, acc) ==
    IF k > Len(intervals) THEN acc
    ELSE LET istart == intervals[k][1]
             iend == intervals[k][2]
         IN  IF istart > end \/ iend < start
             THEN ClassifyFrom(start, end, intervals, k + 1, acc)
             ELSE IF istart > start /\ iend < end
             THEN ClassifyFrom(start, end, intervals, k + 1,
                      [acc EXCEPT !.inside = Append(acc.inside, <<istart, iend>>)])
             ELSE IF istart <= start /\ start <= end /\ end <= iend
             THEN [acc EXCEPT !.absorbed = <<istart, iend>>]
             ELSE IF iend > end
             THEN ClassifyFrom(start, end, intervals, k + 1,
                      [acc EXCEPT !.after = <<istart, iend>>])
             ELSE IF istart < start
             THEN ClassifyFrom(start, end, intervals, k + 1,
                      [acc EXCEPT !.before = <<istart, iend>>])
             ELSE ClassifyFrom(start, end, intervals, k + 1, acc)

_get_before_inside_after(start, end, intervals) ==
    ClassifyFrom(start, end, intervals, 1,
        [before |-> <<>>, inside |-> <<>>, after |-> <<>>, absorbed |-> <<>>])

\* interval._remove_existing(pair) on the list `subs`.
_remove_existing(subs, pair) ==
    IF pair # <<>> THEN ListRemove(subs, pair) ELSE subs

RECURSIVE RemoveEach(_, _)
\* `for pair in pairs: self._remove_existing(pair)`
RemoveEach(subs, pairs) ==
    IF pairs = <<>> THEN subs
    ELSE RemoveEach(_remove_existing(subs, Head(pairs)), Tail(pairs))

\* The in-place growth of one stored range: lines 125-128 and 131-134.
Grow(subs, pair, start, end) ==
    LET to_replace == IndexOf(subs, pair)
        s == subs[to_replace][1]
        e == subs[to_replace][2]
        selfstart == Min(s, start)
        selfend == Max(e, end)
    IN  [k \in DOMAIN subs |->
            IF k = to_replace THEN <<selfstart, selfend>> ELSE subs[k]]

\* _add_one_interval with the `after` range replaced by (min(s, start), end).
AddOneShortAfter(subs, start, end) ==
    LET c == _get_before_inside_after(start, end, subs)
        s1 == RemoveEach(subs, c.inside)
        s2 == IF c.before # <<>> THEN Grow(s1, c.before, start, end) ELSE s1
        s3 == IF c.after # <<>>
              THEN [k \in DOMAIN s2 |->
                       IF k = IndexOf(s2, c.after)
                       THEN <<Min(c.after[1], start), end>> ELSE s2[k]]
              ELSE s2
    IN  IF c.absorbed # <<>> THEN subs
        ELSE IF c.before = <<>> /\ c.after = <<>>
             THEN Append(s3, <<start, end>>)
             ELSE s3

\* interval._add_one_interval(start, end) on the list `subs`: the list after.
_add_one_interval(subs, start, end) ==
    LET c == _get_before_inside_after(start, end, subs)
        s1 == RemoveEach(subs, c.inside)
        s2 == IF c.before # <<>> THEN Grow(s1, c.before, start, end) ELSE s1
        s3 == IF c.after # <<>> THEN Grow(s2, c.after, start, end) ELSE s2
    IN  IF c.absorbed # <<>> THEN subs
        ELSE IF c.before = <<>> /\ c.after = <<>>
             THEN Append(s3, <<start, end>>)
             ELSE s3

\* subtract_inside(outer, inner), the local function of _remove_one_interval.
subtract_inside(outer, inner) ==
    << <<outer[1], inner[1]>>, <<inner[2], outer[2]>> >>

RECURSIVE AppendNonNull(_, _)
\* `for start, end in new_intervals: if start != end: append((start, end))`
AppendNonNull(subs, new_intervals) ==
    IF new_intervals = <<>> THEN subs
    ELSE LET p == Head(new_intervals)
         IN  AppendNonNull(IF p[1] # p[2] THEN Append(subs, p) ELSE subs,
                           Tail(new_intervals))

\* _remove_one_interval that appends both residuals, degenerate or not.
RemoveOneKeepNull(subs, start, end) ==
    LET c == _get_before_inside_after(start, end, subs)
        s1 == IF c.absorbed # <<>>
              THEN _remove_existing(subs, c.absorbed)
                       \o subtract_inside(c.absorbed, <<start, end>>)
              ELSE subs
    IN  RemoveEach(s1, c.inside \o <<c.before, c.after>>)

\* interval._remove_one_interval(start, end) on the list `subs`: the list after.
_remove_one_interval(subs, start, end) ==
    LET c == _get_before_inside_after(start, end, subs)
        s1 == IF c.absorbed # <<>>
              THEN AppendNonNull(_remove_existing(subs, c.absorbed),
                       subtract_inside(c.absorbed, <<start, end>>))
              ELSE subs
    IN  RemoveEach(s1, c.inside \o <<c.before, c.after>>)

\* _from_intervals that keeps the caller's list object instead of copying it.
FromIntervalsAlias(store, intervals) ==
    [store |-> store, ref |-> intervals]

\* interval._from_intervals(intervals): `list(intervals)` is a new list object
\* with the content of the list object `intervals`.
_from_intervals(store, intervals) ==
    [store |-> Append(store, store[intervals]), ref |-> Len(store) + 1]

RECURSIVE AddLoop(_, _, _)
\* `for start, end in oth.subintervals: new._add_one_interval(start, end)`
AddLoop(store, new, todo) ==
    IF todo = <<>> THEN store
    ELSE LET subs == _add_one_interval(store[new], Head(todo)[1], Head(todo)[2])
         IN  AddLoop([store EXCEPT ![new] = subs], new, Tail(todo))

RECURSIVE SubLoop(_, _, _)
\* `for start, end in oth.subintervals: new._remove_one_interval(start, end)`
SubLoop(store, new, todo) ==
    IF todo = <<>> THEN store
    ELSE LET subs == _remove_one_interval(store[new], Head(todo)[1], Head(todo)[2])
         IN  SubLoop([store EXCEPT ![new] = subs], new, Tail(todo))

\* interval.__add__: self and oth are list references; the store afterwards
\* and the reference held by the returned instance.
__add__(store, self, oth) ==
    LET new == _from_intervals(store, self)
    IN  [store |-> AddLoop(new.store, new.ref, new.store[oth]), ref |-> new.ref]

\* interval.__sub__, likewise.
__sub__(store, self, oth) ==
    LET new == _from_intervals(store, self)
    IN  [store |-> SubLoop(new.store, new.ref, new.store[oth]), ref |-> new.ref]

\* interval.__init__(start, end): the list of the new instance, or the raise.
__init__(start, end) ==
    IF start = None /\ end = None THEN [kind |-> "ok", val |-> <<>>]
    ELSE IF start # None /\ end # None
         THEN IF start >= end THEN [kind |-> "raise", val |-> <<>>]
              ELSE [kind |-> "ok", val |-> << <<start, end>> >>]
         ELSE [kind |-> "raise", val |-> <<>>]

\* Truthiness of a value __contains__ returns: True, or None (no return).
Truthy(x) == x = "True"

RECURSIVE ContainsFrom(_, _, _)
ContainsFrom(subs, item, k) ==
    IF k > Len(subs) THEN "None"
    ELSE IF subs[k][1] <= item /\ item <= subs[k][2] THEN "True"
    ELSE ContainsFrom(subs, item, k + 1)

\* interval.__contains__(item) on the list `subs`.
__contains__(subs, item) == ContainsFrom(subs, item, 1)

RECURSIVE SumOf(_)
SumOf(s) == IF s = <<>> THEN 0 ELSE Head(s) + SumOf(Tail(s))

\* interval.length(): reduce(operator.add, ...) has no initial value and
\* raises TypeError on an empty iterable.
length(subs) ==
    LET differences_of_each_interval ==
            [k \in DOMAIN subs |-> subs[k][2] - subs[k][1]]
    IN  IF differences_of_each_interval = <<>>
        THEN [kind |-> "raise", val |-> 0]
        ELSE [kind |-> "int", val |-> SumOf(differences_of_each_interval)]

\* Python's order on 2-tuples.
TupleLess(p, q) == p[1] < q[1] \/ (p[1] = q[1] /\ p[2] < q[2])

RECURSIVE sorted(_)
\* sorted(list of tuples), by insertion.
sorted(s) ==
    IF s = <<>> THEN <<>>
    ELSE LET rest == sorted(Tail(s))
             x == Head(s)
             k == Cardinality({m \in DOMAIN rest : TupleLess(rest[m], x)})
         IN  SubSeq(rest, 1, k) \o <<x>> \o SubSeq(rest, k + 1, Len(rest))

\* interval.__eq__(oth): a TypeError for a foreign oth; else all(imap(eq, ..)),
\* and imap stops at the end of the shorter of the two sorted lists.
__eq__(subs, othType, othSubs) ==
    IF othType # "interval" THEN [kind |-> "raise", val |-> FALSE]
    ELSE LET a == sorted(subs)
             b == sorted(othSubs)
         IN  [kind |-> "bool",
              val |-> \A k \in 1 .. Min(Len(a), Len(b)) : a[k] = b[k]]

\* The list held by instance i.
Subs(i) == lists[objs[i].subintervals]

\* The state: every instance refers to a list object, and a list object is a
\* list of 2-tuples of values.
TypeOK ==
    /\ \A i \in DOMAIN objs : objs[i].subintervals \in DOMAIN lists
    /\ \A ref \in DOMAIN lists :
           \A k \in DOMAIN lists[ref] : lists[ref][k] \in Vals \X Vals

----
\* Spec: a program that creates instances with interval(...), a + b and a - b.

Init ==
    /\ lists = <<>>
    /\ objs = <<>>
    /\ call = [op |-> "none", start |-> None, end |-> None]
    /\ ret = [kind |-> "none", val |-> <<>>]

\* x = interval(start, end); a call that raises creates nothing.
Construct ==
    \E start \in Vals \cup {None}, end \in Vals \cup {None} :
        /\ Len(objs) < MaxObjs
        /\ __init__(start, end).kind = "ok"
        /\ lists' = Append(lists, __init__(start, end).val)
        /\ objs' = Append(objs, [subintervals |-> Len(lists) + 1])
        /\ UNCHANGED <<call, ret>>

\* x = objs[i] + objs[j]
Add ==
    \E i \in DOMAIN objs, j \in DOMAIN objs :
        /\ Len(objs) < MaxObjs
        /\ LET r == __add__(lists, objs[i].subintervals, objs[j].subintervals)
           IN  /\ lists' = r.store
               /\ objs' = Append(objs, [subintervals |-> r.ref])
        /\ UNCHANGED <<call, ret>>

\* x = objs[i] - objs[j]
Sub ==
    \E i \in DOMAIN objs, j \in DOMAIN objs :
        /\ Len(objs) < MaxObjs
        /\ LET r == __sub__(lists, objs[i].subintervals, objs[j].subintervals)
           IN  /\ lists' = r.store
               /\ objs' = Append(objs, [subintervals |-> r.ref])
        /\ UNCHANGED <<call, ret>>

Next == Construct \/ Add \/ Sub

Spec == Init /\ [][Next]_vars

----
\* SpecCalls: two instances self = objs[1] and oth = objs[2], each holding any
\* list of at most MaxRanges pairwise disjoint, non-touching ranges in any
\* order, and single calls on them.  A call's result is kept in `ret`; the
\* instance a + b or a - b returns is dropped once its list is read.

Ranges == {p \in Vals \X Vals : p[1] < p[2]}

Overlap(p, q) == p[1] <= q[2] /\ q[1] <= p[2]

WellFormed(subs) ==
    \A k \in DOMAIN subs :
        /\ subs[k][1] < subs[k][2]
        /\ \A m \in DOMAIN subs : k # m => ~Overlap(subs[k], subs[m])

WellFormedLists ==
    {s \in UNION {[1 .. n -> Ranges] : n \in 0 .. MaxRanges} : WellFormed(s)}

InitCalls ==
    /\ \E A \in WellFormedLists, B \in WellFormedLists : lists = <<A, B>>
    /\ objs = <<[subintervals |-> 1], [subintervals |-> 2]>>
    /\ call = [op |-> "none", start |-> None, end |-> None]
    /\ ret = [kind |-> "none", val |-> <<>>]

\* The store once the instance a call returned is dropped.
Operands(store) == SubSeq(store, 1, 2)

\* objs[1] + objs[2]
CallAdd ==
    LET r == __add__(lists, objs[1].subintervals, objs[2].subintervals)
    IN  /\ call' = [op |-> "add", start |-> None, end |-> None]
        /\ ret' = [kind |-> "interval", val |-> r.store[r.ref]]
        /\ lists' = Operands(r.store)
        /\ UNCHANGED objs

\* objs[1] - objs[2]
CallSub ==
    LET r == __sub__(lists, objs[1].subintervals, objs[2].subintervals)
    IN  /\ call' = [op |-> "sub", start |-> None, end |-> None]
        /\ ret' = [kind |-> "interval", val |-> r.store[r.ref]]
        /\ lists' = Operands(r.store)
        /\ UNCHANGED objs

\* objs[1] == objs[2], or objs[1] == <an int>
CallEq ==
    \E othType \in {"interval", "int"} :
        /\ call' = [op |-> "eq", start |-> None, end |-> None]
        /\ ret' = __eq__(Subs(1), othType,
                         IF othType = "interval" THEN Subs(2) ELSE <<>>)
        /\ UNCHANGED <<lists, objs>>

\* objs[1].length()
CallLength ==
    /\ call' = [op |-> "length", start |-> None, end |-> None]
    /\ ret' = length(Subs(1))
    /\ UNCHANGED <<lists, objs>>

\* item in objs[1]
CallContains ==
    \E item \in Vals :
        /\ call' = [op |-> "contains", start |-> item, end |-> None]
        /\ ret' = [kind |-> "contains", val |-> __contains__(Subs(1), item)]
        /\ UNCHANGED <<lists, objs>>

\* _get_before_inside_after(start, end, objs[1].subintervals)
CallClassify ==
    \E p \in Ranges :
        /\ call' = [op |-> "classify", start |-> p[1], end |-> p[2]]
        /\ ret' = [kind |-> "classes",
                   val |-> _get_before_inside_after(p[1], p[2], Subs(1))]
        /\ UNCHANGED <<lists, objs>>

NextCalls ==
    CallAdd \/ CallSub \/ CallEq \/ CallLength \/ CallContains \/ CallClassify

SpecCalls == InitCalls /\ [][NextCalls]_vars

----
\* The claims.

\* The set of ranges a list stores.
Stored(subs) == {subs[k] : k \in DOMAIN subs}

\* No range of a shares a point with a range of b.
Disjoint(a, b) == \A k \in DOMAIN a, m \in DOMAIN b : ~Overlap(a[k], b[m])

\* The list of the instance a + b, resp. a - b, returns.
AddVal(a, b) == LET r == __add__(<<a, b>>, 1, 2) IN r.store[r.ref]
SubVal(a, b) == LET r == __sub__(<<a, b>>, 1, 2) IN r.store[r.ref]

\* C1: every instance made by interval(), interval(lo, hi), + and - stores
\* ranges with lo < hi that are pairwise disjoint and non-touching.
C1_Closure == \A i \in DOMAIN objs : WellFormed(Subs(i))

\* C2: after a + b on well-formed operands, every value v is in the result
\* iff it is in a or in b (membership closed on both ends).
C2_UnionMembership ==
    call.op = "add" =>
        \A v \in Vals :
            Truthy(__contains__(ret.val, v))
                <=> (Truthy(__contains__(Subs(1), v))
                     \/ Truthy(__contains__(Subs(2), v)))

\* A union that grows a stored range of a by a range of b, with a value that
\* only b holds and a value that neither holds.
C2_Witness ==
    /\ call.op = "add"
    /\ Len(Subs(1)) = 1
    /\ Len(Subs(2)) = 1
    /\ Len(ret.val) = 1
    /\ ret.val # Subs(1)
    /\ \E v \in Vals :
           Truthy(__contains__(ret.val, v)) /\ ~Truthy(__contains__(Subs(1), v))
    /\ \E v \in Vals : ~Truthy(__contains__(ret.val, v))

\* C3: in a - b with b a single range r, a stored range (istart, iend) that r
\* overlaps only at its tail leaves (istart, r.lo) in the result, and one that
\* r overlaps only at its head leaves (r.hi, iend).
C3_PartialOverlapTrims ==
    (call.op = "sub" /\ Len(Subs(2)) = 1) =>
        LET r == Subs(2)[1]
        IN  \A k \in DOMAIN Subs(1) :
                LET istart == Subs(1)[k][1]
                    iend == Subs(1)[k][2]
                IN  /\ (istart < r[1] /\ r[1] <= iend /\ iend <= r[2])
                           => <<istart, r[1]>> \in Stored(ret.val)
                    /\ (r[1] < istart /\ istart <= r[2] /\ r[2] < iend)
                           => <<r[2], iend>> \in Stored(ret.val)

\* C4: a == b on two instances is true iff they store the same set of ranges.
C4_EqualsIsSetEquality ==
    (call.op = "eq" /\ ret.kind = "bool") =>
        (ret.val <=> Stored(Subs(1)) = Stored(Subs(2)))

\* C5: a + b and b + a store the same set of ranges.
C5_UnionCommutes ==
    call.op = "add" => Stored(ret.val) = Stored(AddVal(Subs(2), Subs(1)))

\* C6: when a and b share no point, (a + b) - b stores exactly the ranges of a.
C6_DifferenceUndoesUnion ==
    (call.op = "add" /\ Disjoint(Subs(1), Subs(2))) =>
        Stored(SubVal(ret.val, Subs(2))) = Stored(Subs(1))

\* A union of two non-empty operands that share no point.
C6_Witness ==
    /\ call.op = "add"
    /\ Disjoint(Subs(1), Subs(2))
    /\ Subs(1) # <<>>
    /\ Subs(2) # <<>>
    /\ Len(ret.val) = Len(Subs(1)) + Len(Subs(2))
    /\ SubVal(ret.val, Subs(2)) = Subs(1)

\* C7: length() never raises, and returns 0 on an instance storing no range.
C7_MeasureTotal ==
    call.op = "length" =>
        /\ ret.kind = "int"
        /\ Subs(1) = <<>> => ret.val = 0

\* C8: no step changes the list of an instance that already exists.
C8_OperandsUnchanged ==
    [][\A i \in DOMAIN objs :
           lists'[objs'[i].subintervals] = lists[objs[i].subintervals]]_vars

\* A union whose accumulator grew while both operands kept their lists.
C8_Witness ==
    \E i \in DOMAIN objs, j \in DOMAIN objs, k \in DOMAIN objs :
        /\ i < k
        /\ j < k
        /\ Len(Subs(i)) = 1
        /\ Len(Subs(j)) = 1
        /\ Subs(k) = Subs(i) \o Subs(j)
        /\ objs[k].subintervals \notin {objs[i].subintervals, objs[j].subintervals}

\* C9: in a + b with b a single range r, when the classifier reports a before
\* and an after range for r, the result stores the one range
\* (min(before.lo, r.lo), max(after.hi, r.hi)) in place of both.
C9_TwoSidedMerge ==
    (call.op = "add" /\ Len(Subs(2)) = 1) =>
        LET r == Subs(2)[1]
            c == _get_before_inside_after(r[1], r[2], Subs(1))
        IN  (c.before # <<>> /\ c.after # <<>>) =>
                /\ <<Min(c.before[1], r[1]), Max(c.after[2], r[2])>>
                       \in Stored(ret.val)
                /\ Len(ret.val) = Len(Subs(1)) - Len(c.inside) - 1

\* C10: every stored range that shares a point with the candidate is reported
\* by the classifier as before, inside, after or absorbed.
C10_ClassifierExhaustive ==
    call.op = "classify" =>
        \A k \in DOMAIN Subs(1) :
            Overlap(Subs(1)[k], <<call.start, call.end>>) =>
                Subs(1)[k] \in {ret.val.before, ret.val.after, ret.val.absorbed}
                                   \cup Stored(ret.val.inside)

====
